---- MODULE Spec2Model ----
(***************************************************************************)
(* Model of script.js: the portfolio page's bootstrap, renderer and the    *)
(* artwork resolver with its two lookup caches.                            *)
(*                                                                         *)
(* script.js holds two variants of the page script one after the other.    *)
(* Function declarations are hoisted and the later declaration of a name   *)
(* replaces the earlier one, so the functions that run are those of lines  *)
(* 261-795; bootstrapPortfolio() is called at line 12 and at line 294.      *)
(*                                                                         *)
(* JavaScript strings are sequences of one-character strings, so that the  *)
(* regular expressions, trim, toLowerCase and toUpperCase of the source    *)
(* are computed, not assumed.  One action is one event-loop task together  *)
(* with the microtasks (promise reactions) it triggers.                    *)
(***************************************************************************)
EXTENDS Integers, Sequences, FiniteSets, TLC

\* ------------------------------------------------------------------ bounds
\* Number of bootstrapPortfolio() invocations explored.
MaxBoot == 2

\* Number of cards created, over all renderings.
MaxCards == 4

\* Length of the section keys of the manifests that hold sections only.
MaxKeyLen == 3

\* ----------------------------------------------------------------- strings
LowerAlpha == <<"a","b","c","d","e","f","g","h","i","j","k","l","m","n","o","p","q","r","s","t","u","v","w","x","y","z">>
UpperAlpha == <<"A","B","C","D","E","F","G","H","I","J","K","L","M","N","O","P","Q","R","S","T","U","V","W","X","Y","Z">>
Digits == {"0","1","2","3","4","5","6","7","8","9"}

Range(s) == {s[i] : i \in DOMAIN s}

IndexIn(alpha, c) == CHOOSE i \in DOMAIN alpha : alpha[i] = c

\* String.prototype.toLowerCase / toUpperCase on one character.
LowerChar(c) == IF c \in Range(UpperAlpha) THEN LowerAlpha[IndexIn(UpperAlpha, c)] ELSE c

UpperChar(c) == IF c \in Range(LowerAlpha) THEN UpperAlpha[IndexIn(LowerAlpha, c)] ELSE c

ToLowerCase(s) == [i \in DOMAIN s |-> LowerChar(s[i])]

ToUpperCase(s) == [i \in DOMAIN s |-> UpperChar(s[i])]

\* The regular-expression classes \d, \w and [A-Za-z0-9._].
IsDigit(c) == c \in Digits

IsWordChar(c) == c \in Range(LowerAlpha) \cup Range(UpperAlpha) \cup Digits \cup {"_"}

IsPackageChar(c) == c \in Range(LowerAlpha) \cup Range(UpperAlpha) \cup Digits \cup {".", "_"}

IsSpace(c) == c \in {" ", "\t", "\n"}

\* s has the literal lit at position p.
HasAt(s, p, lit) == p >= 1 /\ p + Len(lit) - 1 <= Len(s) /\ SubSeq(s, p, p + Len(lit) - 1) = lit

\* String.prototype.includes
Includes(s, lit) == \E p \in 1..(Len(s) + 1) : HasAt(s, p, lit)

\* String.prototype.trim
Trim(s) ==
    LET keep == {i \in DOMAIN s : ~IsSpace(s[i])}
    IN  IF keep = {} THEN <<>>
        ELSE SubSeq(s, CHOOSE i \in keep : \A j \in keep : i <= j, CHOOSE i \in keep : \A j \in keep : j <= i)

Min(S) == CHOOSE x \in S : \A y \in S : x <= y

\* The longest run of characters of a class that starts at position p,
\* outside being the positions of s whose character is not of the class.
RunFrom(s, p, outside) ==
    LET ends == {q \in (p - 1)..Len(s) : \A i \in p..q : i \notin outside}
    IN  SubSeq(s, p, CHOOSE q \in ends : \A r \in ends : r <= q)

\* ------------------------------------------------------- program constants
placeholderImage == <<"assets/placeholder.svg">>

US == <<"U","S">>

\* The two proxy endpoint templates, by position in the list.
playStoreProxyEndpoints == <<"r.jina.ai", "api.allorigins.win">>

\* ------------------------------------------------------ network responses
\* What the transport answers to one request: net = FALSE when fetch()
\* rejects, ok is response.ok, json = FALSE when response.json() rejects,
\* results is payload.results of the lookup endpoint and html the list of
\* <meta> tags of a proxied page, each tag the list of its attributes.
Response(net, ok, json, results, html) == [net |-> net, ok |-> ok, json |-> json, results |-> results, html |-> html]

Artwork(country, size) == country \o <<size>>

\* The lookup endpoint's answers for one app in one country's store.
AppleResponses(country) ==
    { Response(TRUE, FALSE, FALSE, <<>>, <<>>),
      Response(TRUE, TRUE, TRUE, <<>>, <<>>),
      Response(TRUE, TRUE, TRUE, <<[artworkUrl512 |-> <<>>, artworkUrl100 |-> <<>>, artworkUrl60 |-> <<>>]>>, <<>>),
      Response(TRUE, TRUE, TRUE, <<[artworkUrl512 |-> Artwork(country, "512x512bb"), artworkUrl100 |-> Artwork(country, "100x100bb"), artworkUrl60 |-> Artwork(country, "60x60bb")]>>, <<>>),
      Response(TRUE, TRUE, TRUE, <<[artworkUrl512 |-> <<>>, artworkUrl100 |-> Artwork(country, "100x100bb"), artworkUrl60 |-> Artwork(country, "60x60bb")]>>, <<>>),
      Response(TRUE, TRUE, TRUE, <<[artworkUrl512 |-> <<>>, artworkUrl100 |-> <<>>, artworkUrl60 |-> Artwork(country, "60x60bb")]>>, <<>>) }

Attr(name, value) == [name |-> name, value |-> value]

\* The answers of proxy endpoint number mirror.
GoogleResponses(mirror) ==
    LET img == <<playStoreProxyEndpoints[mirror], "icon">>
    IN  { Response(TRUE, FALSE, FALSE, <<>>, <<>>),
          Response(TRUE, TRUE, TRUE, <<>>, << <<Attr("property", <<"og:title">>), Attr("content", <<"App">>)>> >>),
          Response(TRUE, TRUE, TRUE, <<>>, << <<Attr("property", <<"og:image">>), Attr("content", img \o <<"?a=1", "&amp;", "b=2">>)>> >>),
          Response(TRUE, TRUE, TRUE, <<>>, << <<Attr("content", img \o <<"second">>), Attr("property", <<"og:image">>)>>,
                                              <<Attr("name", <<"og:image">>), Attr("content", img \o <<"third">>)>> >>) }

\* The result of an asynchronous function: fulfilled with a value or
\* rejected with an error (its message).
Fulfilled(v) == [st |-> "ok", val |-> v]

Rejected(msg) == [st |-> "err", val |-> <<msg>>]

Pending == [st |-> "pending", val |-> <<>>]

\* artworkUrl100?.replace(/100x100bb/, "512x512bb")
Replace100(u) == [i \in DOMAIN u |-> IF u[i] = "100x100bb" /\ (\A j \in 1..(i - 1) : u[j] # "100x100bb") THEN "512x512bb" ELSE u[i]]

\* resolveAppleArtwork once the transport has answered.
resolveAppleArtwork(resp) ==
    IF ~resp.net THEN Rejected("fetch failed")
    ELSE IF ~resp.ok THEN Rejected("Lookup failed with status")
    ELSE IF ~resp.json THEN Rejected("invalid JSON")
    ELSE IF resp.results = <<>> THEN Rejected("No App Store data returned")
    ELSE LET result == resp.results[1]
             artwork == IF result.artworkUrl512 # <<>> THEN result.artworkUrl512
                        ELSE IF result.artworkUrl100 # <<>> THEN Replace100(result.artworkUrl100)
                        ELSE result.artworkUrl60
         IN  IF artwork = <<>> THEN Rejected("No artwork URL available") ELSE Fulfilled(artwork)

\* The three og:image patterns: the attribute names a tag must start with,
\* and which of the two holds the captured content.
OgPatterns == << [first |-> "property", second |-> "content", capture |-> 2],
                 [first |-> "content", second |-> "property", capture |-> 1],
                 [first |-> "name", second |-> "content", capture |-> 2] >>

TagMatches(tag, pat) ==
    /\ Len(tag) >= 2
    /\ tag[1].name = pat.first
    /\ tag[2].name = pat.second
    /\ tag[3 - pat.capture].value = <<"og:image">>
    /\ tag[pat.capture].value # <<>>

\* match[1].replace(/&amp;/g, "&")
UnescapeAmp(u) == [i \in DOMAIN u |-> IF u[i] = "&amp;" THEN "&" ELSE u[i]]

\* The image URL of a fetched body: the first pattern that matches
\* anywhere in the body, at its leftmost match; <<>> for none.
OgImage(html) ==
    LET matching(k) == {i \in DOMAIN html : TagMatches(html[i], OgPatterns[k])}
        pats == {k \in DOMAIN OgPatterns : matching(k) # {}}
    IN  IF pats = {} THEN <<>>
        ELSE LET k == Min(pats) IN UnescapeAmp(html[Min(matching(k))][OgPatterns[k].capture].value)

\* One iteration of the endpoint loop of resolveGoogleArtwork once the
\* transport has answered.
TryEndpoint(resp) ==
    IF ~resp.net THEN Rejected("fetch failed")
    ELSE IF ~resp.ok THEN Rejected("Proxy request failed")
    ELSE IF OgImage(resp.html) = <<>> THEN Rejected("No og:image tag found in response")
    ELSE Fulfilled(OgImage(resp.html))

\* ------------------------------------------------------ titles and slugs
\* The characters of s that are not the empty string, in order.
Compact(s) == SelectSeq(s, LAMBDA c : c # "")

\* s.replace(/[class]+/g, rep): every maximal run of characters of the set
\* class becomes one rep.
ReplaceRuns(s, class, rep) ==
    Compact([i \in DOMAIN s |-> IF s[i] \notin class THEN s[i]
                                ELSE IF i > 1 /\ s[i - 1] \in class THEN ""
                                ELSE rep])

WhiteSpace == {" ", "\t", "\n"}

SlugChars == Range(LowerAlpha) \cup Digits \cup {"-"}

\* replace(/([a-z])([A-Z])/g, "$1 $2"): a space between a lower-case letter
\* and the upper-case letter after it.
RECURSIVE SplitCamel(_, _)
SplitCamel(s, i) ==
    IF i > Len(s) THEN <<>>
    ELSE IF i > 1 /\ s[i - 1] \in Range(LowerAlpha) /\ s[i] \in Range(UpperAlpha)
         THEN <<" ", s[i]>> \o SplitCamel(s, i + 1)
    ELSE <<s[i]>> \o SplitCamel(s, i + 1)

\* replace(/\b\w/g, (char) => char.toUpperCase()): the first character of
\* every word in upper case.
Capitalize(s) == [i \in DOMAIN s |-> IF IsWordChar(s[i]) /\ (i = 1 \/ ~IsWordChar(s[i - 1])) THEN UpperChar(s[i]) ELSE s[i]]

formatSectionTitle(sectionKey) ==
    Capitalize(Trim(ReplaceRuns(SplitCamel(ReplaceRuns(sectionKey, {"_", "-"}, " "), 1), WhiteSpace, " ")))

\* replace(/^-|-$/g, ""): one "-" off the start and one off the end.
StripDashes(s) ==
    LET NoLead(t) == IF t # <<>> /\ t[1] = "-" THEN Tail(t) ELSE t
        NoTrail(t) == IF t # <<>> /\ t[Len(t)] = "-" THEN SubSeq(t, 1, Len(t) - 1) ELSE t
    IN  NoTrail(NoLead(s))

\* Mutant of slugify: the runs of "-" are not collapsed.
slugifyKeepsRuns(value) ==
    LET Dashed(low) == [i \in DOMAIN low |-> IF low[i] \in SlugChars THEN low[i] ELSE "-"]
    IN  StripDashes(Dashed(ReplaceRuns(ToLowerCase(value), WhiteSpace, "-")))

slugify(value) ==
    LET Dashed(low) == [i \in DOMAIN low |-> IF low[i] \in SlugChars THEN low[i] ELSE "-"]
    IN  StripDashes(ReplaceRuns(Dashed(ReplaceRuns(ToLowerCase(value), WhiteSpace, "-")), {"-"}, "-"))

\* The decimal digits of n, for n up to 99.
DigitString(n) ==
    LET D(k) == <<"0","1","2","3","4","5","6","7","8","9">>[k + 1]
    IN  IF n < 10 THEN <<D(n)>> ELSE <<D(n \div 10), D(n % 10)>>

\* rawSlug || `section-${nav.childElementCount + 1}`
SectionSlug(sectionKey, childElementCount) ==
    LET Or(rawSlug) == IF rawSlug # <<>> THEN rawSlug
                       ELSE <<"s","e","c","t","i","o","n","-">> \o DigitString(childElementCount + 1)
    IN  Or(slugify(sectionKey))

createNavLink(sectionKey, slug) == [href |-> <<"#">> \o slug, textContent |-> formatSectionTitle(sectionKey)]

\* The section element: its id, dataset.section, heading, whether its
\* cards container holds the empty-state paragraph, and the cards in it.
buildSectionElement(sectionKey, slug) ==
    [id |-> slug, key |-> sectionKey, heading |-> formatSectionTitle(sectionKey), empty |-> 0, cards |-> <<>>]

\* ------------------------------------------------------------ manifest data
\* Project urls: App Store urls with country segment fr, with segment us,
\* with none and with no id; Play Store urls with and without scheme and
\* with no id; a plain web url.
UrlAppleFr == <<"h","t","t","p","s",":","/","/","a","p","p","s",".","a","p","p","l","e",".","c","o","m","/","f","r","/","a","p","p","/","x","/","i","d","1","2">>

UrlAppleUs == <<"h","t","t","p","s",":","/","/","a","p","p","s",".","a","p","p","l","e",".","c","o","m","/","u","s","/","a","p","p","/","x","/","i","d","1","2">>

UrlAppleNone == <<"h","t","t","p","s",":","/","/","a","p","p","s",".","a","p","p","l","e",".","c","o","m","/","a","p","p","/","x","/","i","d","1","2">>

UrlAppleNoId == <<"h","t","t","p","s",":","/","/","a","p","p","s",".","a","p","p","l","e",".","c","o","m","/","f","r","/","a","p","p","/","x">>

UrlPlay == <<"h","t","t","p","s",":","/","/","p","l","a","y",".","g","o","o","g","l","e",".","c","o","m","/","s","t","o","r","e","/","a","p","p","s","/","d","e","t","a","i","l","s","?","i","d","=","c","o","m",".","a","&","h","l","=","e","n">>

UrlPlayBare == <<"p","l","a","y",".","g","o","o","g","l","e",".","c","o","m","/","s","t","o","r","e","/","a","p","p","s","/","d","e","t","a","i","l","s","?","i","d","=","c","o","m",".","a">>

UrlPlayNoId == <<"h","t","t","p","s",":","/","/","p","l","a","y",".","g","o","o","g","l","e",".","c","o","m","/","s","t","o","r","e">>

UrlWeb == <<"h","t","t","p","s",":","/","/","x",".","d","e","v">>

\* -------------------------------------------------------- URL extraction
\* url.match(/id(\d+)/i): the digits captured at the leftmost match, <<>> for
\* no match.
AppIdRegex(url) ==
    LET low == ToLowerCase(url)
        hits == {p \in DOMAIN url : HasAt(low, p, <<"i","d">>) /\ p + 2 <= Len(url) /\ IsDigit(url[p + 2])}
    IN  IF hits = {} THEN <<>> ELSE RunFrom(url, Min(hits) + 2, {i \in DOMAIN url : ~IsDigit(url[i])})

\* extractAppleCountry: url.match(/apps\.apple\.com\/(\w{2})\//i),
\* upper-cased, else "US".
AppleCountryRegex(url) ==
    LET low == ToLowerCase(url)
        host == <<"a","p","p","s",".","a","p","p","l","e",".","c","o","m","/">>
        n == Len(host)
        hits == {p \in DOMAIN url :
                    /\ HasAt(low, p, host)
                    /\ p + n + 2 <= Len(url)
                    /\ IsWordChar(url[p + n])
                    /\ IsWordChar(url[p + n + 1])
                    /\ url[p + n + 2] = "/"}
    IN  IF hits = {} THEN US
        ELSE ToUpperCase(SubSeq(url, Min(hits) + n, Min(hits) + n + 1))

\* new URL(url) throws for a string without a scheme.
UrlParses(url) == HasAt(url, 1, <<"h","t","t","p","s",":","/","/">>)

\* parsed.searchParams.get("id"): the value of the first query parameter
\* named id, <<>> when there is none.
SearchParamId(url) ==
    LET marks == {p \in DOMAIN url : url[p] = "?"}
        q == IF marks = {} THEN Len(url) + 1 ELSE Min(marks)
        hits == {p \in (q + 1)..Len(url) :
                    /\ HasAt(url, p, <<"i","d","=">>)
                    /\ url[p - 1] \in {"?", "&"}
                    /\ \A i \in (q + 1)..(p - 1) : url[i] # "#"}
    IN  IF hits = {} THEN <<>> ELSE RunFrom(url, Min(hits) + 3, {i \in DOMAIN url : url[i] \in {"&", "#"}})

\* extractPlayStoreId: the id query parameter, else the regular expression
\* /id=([A-Za-z0-9._]+)/, else "".
PlayStoreIdOf(url) ==
    LET id == IF UrlParses(url) THEN SearchParamId(url) ELSE <<>>
        hits == {p \in DOMAIN url :
                    HasAt(url, p, <<"i","d","=">>) /\ p + 3 <= Len(url) /\ IsPackageChar(url[p + 3])}
    IN  IF id # <<>> THEN id
        ELSE IF hits = {} THEN <<>>
        ELSE RunFrom(url, Min(hits) + 3, {i \in DOMAIN url : ~IsPackageChar(url[i])})

\* The functions above, tabulated once over the urls of the manifests.
ProjectUrls == {UrlAppleFr, UrlAppleUs, UrlAppleNone, UrlAppleNoId, UrlPlay, UrlPlayBare, UrlPlayNoId, UrlWeb}

AppIdTable == [u \in ProjectUrls |-> AppIdRegex(u)]

AppleCountryTable == [u \in ProjectUrls |-> AppleCountryRegex(u)]

PlayStoreIdTable == [u \in ProjectUrls |-> PlayStoreIdOf(u)]

AppIdMatch(url) == AppIdTable[url]

extractAppleCountry(url) == AppleCountryTable[url]

extractPlayStoreId(url) == PlayStoreIdTable[url]

Project(title, url, platform, cover_image) == [title |-> title, url |-> url, platform |-> platform, cover_image |-> cover_image]

\* A missing platform or cover_image is the empty string, as
\* (project.platform || "") and (project.cover_image || "") make it.
IosFr == Project("ios-fr", UrlAppleFr, <<"i","O","S">>, <<>>)

IosUs == Project("ios-us", UrlAppleUs, <<"i","O","S">>, <<>>)

IosNone == Project("ios-none", UrlAppleNone, <<"I","O","S">>, <<>>)

IosNoId == Project("ios-noid", UrlAppleNoId, <<"i","O","S">>, <<>>)

AndroidA == Project("android-a", UrlPlay, <<"A","n","d","r","o","i","d">>, <<>>)

AndroidBare == Project("android-bare", UrlPlayBare, <<"i","P","a","d",","," ","A","n","d","r","o","i","d">>, <<>>)

AndroidNoId == Project("android-noid", UrlPlayNoId, <<"a","n","d","r","o","i","d">>, <<>>)

CoveredIos == Project("covered-ios", UrlAppleFr, <<"i","O","S">>, <<"a",".","p","n","g">>)

PaddedAndroid == Project("padded-android", UrlPlay, <<"A","n","d","r","o","i","d">>, <<" ","b",".","p","n","g"," ">>)

BlankIos == Project("blank-ios", UrlAppleUs, <<"i","O","S">>, <<" "," ">>)

WebPlain == Project("web-plain", UrlWeb, <<"W","e","b">>, <<>>)

NoPlatform == Project("no-platform", UrlAppleFr, <<>>, <<>>)

\* A platform that names both stores, with the address of a Play page.
BothStores == Project("both-stores", UrlPlay, <<"A","n","d","r","o","i","d"," ","/"," ","i","O","S">>, <<>>)

\* A platform that names no store, for the mobile section.
DesktopApp == Project("desktop-app", UrlAppleUs, <<"m","a","c","O","S">>, <<>>)

KeyMobile == <<"m","o","b","i","l","e">>

KeyMobileCap == <<" ","M","o","b","i","l","e">>

KeyWeb == <<"w","e","b">>

Entry(key, items) == [key |-> key, items |-> items]

\* The manifests the transport may serve: the entries of the JSON object in
\* order, each a section key and its array of projects.
Manifests ==
    { << Entry(KeyMobile, <<IosFr, IosNone>>) >>,
      << Entry(KeyMobile, <<IosUs, IosNoId>>), Entry(KeyWeb, <<>>) >>,
      << Entry(KeyWeb, <<AndroidA>>), Entry(KeyMobileCap, <<AndroidBare>>) >>,
      << Entry(KeyMobile, <<CoveredIos, BlankIos, DesktopApp>>), Entry(KeyWeb, <<PaddedAndroid>>) >>,
      << Entry(KeyMobileCap, <<AndroidNoId, NoPlatform>>), Entry(KeyWeb, <<WebPlain, BothStores>>) >>,
      << Entry(KeyMobile, <<IosFr>>) >> }

\* The number of projects of a manifest.
RECURSIVE ProjectCount(_)
ProjectCount(entries) == IF entries = <<>> THEN 0 ELSE Len(Head(entries).items) + ProjectCount(Tail(entries))

\* -------------------------------------------------------------------- state
VARIABLES
    mainExists,       \* document.querySelector("main") finds an element
    containersExist,  \* [data-nav] and [data-sections] both exist
    boots,            \* one entry per bootstrapPortfolio() call: its position
    notices,          \* number of error notices prepended to main
    nav,              \* children of [data-nav]: the links
    sections,         \* children of [data-sections]
    cards,            \* every card created, in creation order
    promises,         \* the lookup promises created so far
    appleLookupCache, \* Map: cache key -> promise (index into promises)
    googleLookupCache,
    calls,            \* network requests in flight
    theme             \* the theme controller: document root, storage, toggle

vars == <<mainExists, containersExist, boots, notices, nav, sections, cards, promises, appleLookupCache, googleLookupCache, calls, theme>>

\* The mutable part of the state as one value, threaded through the
\* synchronous code of one task.
World == [nav |-> nav, sections |-> sections, cards |-> cards, promises |-> promises,
          appleLookupCache |-> appleLookupCache, googleLookupCache |-> googleLookupCache, calls |-> calls]

\* ------------------------------------------------------------------ Map
\* Mutant of CacheHas: the has() test is missing, every request looks up.
CacheHasNever(cache, key) == FALSE

CacheHas(cache, key) == key \in DOMAIN cache

CacheSet(cache, key, pid) == [k \in DOMAIN cache \cup {key} |-> IF k = key THEN pid ELSE cache[k]]

CacheDelete(cache, key) == [k \in DOMAIN cache \ {key} |-> cache[k]]

\* ------------------------------------------------------------- promises
\* A lookup promise.  handled: it carries the catch handler of
\* fetchAppleArtwork / fetchGoogleArtwork (the fallback promise of line 655
\* does not).  fb: the promise of the US key it awaits in its fallback, 0
\* for none.  log: the network requests of its lookup, in order.
NewPromise(store, key, id, country, handled) ==
    [store |-> store, key |-> key, id |-> id, country |-> country, handled |-> handled,
     st |-> "pending", val |-> <<>>, fb |-> 0, log |-> <<>>]

Call(pid, store, id, country, mirror) == [pid |-> pid, store |-> store, id |-> id, country |-> country, mirror |-> mirror]

LogEntry(country, mirror) == [country |-> country, mirror |-> mirror, st |-> "pending", val |-> <<>>]

\* fetch(lookupUrl): one more request of promise pid is in flight.
SendRequest(w, pid, country, mirror) ==
    [w EXCEPT !.calls = @ \cup {Call(pid, w.promises[pid].store, w.promises[pid].id, country, mirror)},
              !.promises[pid].log = Append(@, LogEntry(country, mirror))]

\* The answer to the last request of promise pid has arrived.
LogAnswer(w, pid, r) ==
    LET n == Len(w.promises[pid].log)
    IN  [w EXCEPT !.promises[pid].log[n].st = r.st, !.promises[pid].log[n].val = r.val]

Settle(w, pid, r) == [w EXCEPT !.promises[pid].st = r.st, !.promises[pid].val = r.val]

\* resolveAppleArtwork(appId, country) up to its first await: a new
\* promise whose request is in flight.
StartAppleLookup(w, key, appId, country, handled) ==
    SendRequest([w EXCEPT !.promises = Append(@, NewPromise("apple", key, appId, country, handled))],
                Len(w.promises) + 1, country, 0)

\* resolveGoogleArtwork(packageId) up to its first await: the request to
\* the first endpoint is in flight.
StartGoogleLookup(w, packageId) ==
    SendRequest([w EXCEPT !.promises = Append(@, NewPromise("google", packageId, packageId, <<>>, TRUE))],
                Len(w.promises) + 1, <<>>, 1)

\* What a call returns: the world after it, and either a settled outcome
\* or the promise (pid) whose outcome it will have; via names the store
\* function that was called, "none" when there was none.
Ret(w, out, pid, via) == [w |-> w, out |-> out, pid |-> pid, via |-> via]

AppleCacheKey(appId, countryCode) == appId \o <<"_">> \o countryCode

\* Mutant of AppleCacheSetNewest: the promise is not stored.
AppleCacheSetSkipped(w, key) == w

\* appleLookupCache.set(key, promise), the promise being the newest one.
AppleCacheSetNewest(w, key) == [w EXCEPT !.appleLookupCache = CacheSet(@, key, Len(w.promises))]

GoogleCacheSetNewest(w, key) == [w EXCEPT !.googleLookupCache = CacheSet(@, key, Len(w.promises))]

fetchAppleArtwork(w, appStoreUrl) ==
    LET Lookup(appId, countryCode, cacheKey) ==
            IF appId = <<>> THEN Ret(w, Rejected("No App Store id found"), 0, "apple")
            ELSE IF CacheHas(w.appleLookupCache, cacheKey) THEN Ret(w, Pending, w.appleLookupCache[cacheKey], "apple")
            ELSE Ret(AppleCacheSetNewest(StartAppleLookup(w, cacheKey, appId, countryCode, TRUE), cacheKey),
                     Pending, Len(w.promises) + 1, "apple")
        WithKey(appId, countryCode) == Lookup(appId, countryCode, AppleCacheKey(appId, countryCode))
    IN  WithKey(AppIdMatch(appStoreUrl), extractAppleCountry(appStoreUrl))

fetchGoogleArtwork(w, playStoreUrl) ==
    LET Lookup(packageId) ==
            IF packageId = <<>> THEN Ret(w, Rejected("No Play Store package id found"), 0, "google")
            ELSE IF CacheHas(w.googleLookupCache, packageId) THEN Ret(w, Pending, w.googleLookupCache[packageId], "google")
            ELSE Ret(GoogleCacheSetNewest(StartGoogleLookup(w, packageId), packageId),
                     Pending, Len(w.promises) + 1, "google")
    IN  Lookup(extractPlayStoreId(playStoreUrl))

\* Mutant of AppleCatch: the fallback does not look for an entry under the
\* US key and always starts a lookup, replacing what is stored there.
AppleCatchRefetches(w, pid, r) ==
    LET Handler(p, fallbackKey) ==
            IF p.country # US
            THEN [AppleCacheSetNewest(StartAppleLookup(w, fallbackKey, p.id, US, FALSE), fallbackKey)
                     EXCEPT !.promises[pid].fb = Len(w.promises) + 1]
            ELSE Settle([w EXCEPT !.appleLookupCache = CacheDelete(@, p.key)], pid, r)
    IN  Handler(w.promises[pid], AppleCacheKey(w.promises[pid].id, US))

\* Mutant of AppleCatch: the country test is missing, a failed US lookup
\* goes to the US endpoint again.
AppleCatchRetriesUS(w, pid, r) ==
    LET Handler(p, fallbackKey) ==
            IF ~CacheHas(w.appleLookupCache, fallbackKey)
            THEN [AppleCacheSetNewest(StartAppleLookup(w, fallbackKey, p.id, US, FALSE), fallbackKey)
                     EXCEPT !.promises[pid].fb = Len(w.promises) + 1]
            ELSE [w EXCEPT !.promises[pid].fb = w.appleLookupCache[fallbackKey]]
    IN  Handler(w.promises[pid], AppleCacheKey(w.promises[pid].id, US))

\* The catch handler of fetchAppleArtwork (lines 650-667), run when the
\* lookup of promise pid has failed with error r.
AppleCatch(w, pid, r) ==
    LET Handler(p, fallbackKey) ==
            IF p.country # US
            THEN IF ~CacheHas(w.appleLookupCache, fallbackKey)
                 THEN [AppleCacheSetNewest(StartAppleLookup(w, fallbackKey, p.id, US, FALSE), fallbackKey)
                          EXCEPT !.promises[pid].fb = Len(w.promises) + 1]
                 ELSE [w EXCEPT !.promises[pid].fb = w.appleLookupCache[fallbackKey]]
            ELSE Settle([w EXCEPT !.appleLookupCache = CacheDelete(@, p.key)], pid, r)
    IN  Handler(w.promises[pid], AppleCacheKey(w.promises[pid].id, US))

\* Mutant of GoogleCatch: the failed entry is left in the cache.
GoogleCatchKeepsEntry(w, pid, r) == Settle(w, pid, r)

\* The catch handler of fetchGoogleArtwork (lines 683-686).
GoogleCatch(w, pid, r) == Settle([w EXCEPT !.googleLookupCache = CacheDelete(@, w.promises[pid].key)], pid, r)

\* `return await fallbackPromise` / `throw fallbackError`: a promise in its
\* fallback takes the outcome of the US promise once that has settled.
AwaitFallback(w) ==
    LET Taken(ps, p) == IF p.st = "pending" /\ p.fb # 0 /\ ps[p.fb].st # "pending"
                        THEN [p EXCEPT !.st = ps[p.fb].st, !.val = ps[p.fb].val]
                        ELSE p
    IN  [w EXCEPT !.promises = [i \in DOMAIN @ |-> Taken(w.promises, w.promises[i])]]

\* ---------------------------------------------------------------- resolver
isMobilePlatform(project) ==
    LET Marked(platform) == Includes(platform, <<"i","o","s">>) \/ Includes(platform, <<"a","n","d","r","o","i","d">>)
    IN  Marked(ToLowerCase(project.platform))

\* (project.cover_image || "").trim() || placeholderImage
FallbackImage(project) ==
    LET Or(coverImage) == IF coverImage # <<>> THEN coverImage ELSE placeholderImage
    IN  Or(Trim(project.cover_image))

\* Mutant of resolveMobileImage: the platform is tested for "android"
\* before "ios".
resolveMobileImageAndroidFirst(w, project) ==
    LET Dispatch(platform) ==
            IF Includes(platform, <<"a","n","d","r","o","i","d">>) THEN fetchGoogleArtwork(w, project.url)
            ELSE IF Includes(platform, <<"i","o","s">>) THEN fetchAppleArtwork(w, project.url)
            ELSE Ret(w, Fulfilled(FallbackImage(project)), 0, "none")
    IN  Dispatch(ToLowerCase(project.platform))

\* resolveMobileImage up to its await: the store call it makes, or the
\* fallback it returns when the platform names no store.
resolveMobileImage(w, project) ==
    LET Dispatch(platform) ==
            IF Includes(platform, <<"i","o","s">>) THEN fetchAppleArtwork(w, project.url)
            ELSE IF Includes(platform, <<"a","n","d","r","o","i","d">>) THEN fetchGoogleArtwork(w, project.url)
            ELSE Ret(w, Fulfilled(FallbackImage(project)), 0, "none")
    IN  Dispatch(ToLowerCase(project.platform))

\* Mutant of MobileImageResult: no try/catch around the store call.
MobileImageResultUncaught(project, fetched) == fetched

\* resolveMobileImage after its await: the try/catch around the store call
\* turns a rejection into the fallback.
MobileImageResult(project, fetched) == IF fetched.st = "err" THEN Fulfilled(FallbackImage(project)) ELSE fetched

\* Mutant of resolveImageSource: the variant of lines 143-153, which sends
\* the mobile section to the stores before it looks at the cover image.
resolveImageSourceMobileFirst(w, project, sectionKey) ==
    LET Decide(coverImage) ==
            IF sectionKey = <<"m","o","b","i","l","e">> THEN resolveMobileImage(w, project)
            ELSE IF coverImage # <<>> THEN Ret(w, Fulfilled(coverImage), 0, "none")
            ELSE Ret(w, Fulfilled(placeholderImage), 0, "none")
    IN  Decide(Trim(project.cover_image))

\* resolveImageSource up to the first await below it.
resolveImageSource(w, project, sectionKey) ==
    LET Decide(coverImage) ==
            IF coverImage # <<>> THEN Ret(w, Fulfilled(coverImage), 0, "none")
            ELSE IF ToLowerCase(sectionKey) = <<"m","o","b","i","l","e">> \/ isMobilePlatform(project) THEN resolveMobileImage(w, project)
            ELSE Ret(w, Fulfilled(placeholderImage), 0, "none")
    IN  Decide(Trim(project.cover_image))

\* The then/catch handlers createProjectCard puts on resolveImageSource:
\* the image source once the promise has settled with outcome resolved.
CardImage(resolved) == IF resolved.st = "ok" THEN resolved.val ELSE placeholderImage

\* The cache key a store call uses ("" for none).
RequestKey(via, url) ==
    LET AppleKey(appId) == IF appId = <<>> THEN <<>> ELSE AppleCacheKey(appId, extractAppleCountry(url))
    IN  IF via = "apple" THEN AppleKey(AppIdMatch(url))
        ELSE IF via = "google" THEN extractPlayStoreId(url)
        ELSE <<>>

\* Mutant of createProjectCard: a cover image is put on the image at once,
\* not in the then handler.
createProjectCardEagerCover(w, project, sectionKey, boot) ==
    LET Card(r, key) ==
            [project |-> project, section |-> sectionKey, boot |-> boot,
             via |-> r.via, key |-> key, awaiting |-> r.pid,
             peers |-> {j \in DOMAIN w.cards : /\ w.cards[j].via = r.via
                                               /\ w.cards[j].key = key
                                               /\ r.via # "none"
                                               /\ w.cards[j].fetched.st = "pending"},
             fetched |-> IF r.via = "none" THEN [st |-> "none", val |-> <<>>] ELSE r.out,
             resolved |-> IF r.via = "none" THEN r.out ELSE Pending,
             src |-> IF r.via = "none" THEN r.out.val ELSE placeholderImage,
             events |-> <<"placeholder", "resolveImageSource">>
                            \o (IF r.w.calls # w.calls THEN <<"fetch">> ELSE <<>>)
                            \o (IF r.via = "none" THEN <<"then">> ELSE <<>>)]
        Create(r) == [r.w EXCEPT !.cards = Append(@, Card(r, RequestKey(r.via, project.url)))]
    IN  Create(resolveImageSource(w, project, sectionKey))

\* createProjectCard: the card, its image showing the placeholder, and the
\* resolveImageSource call it makes.  fetched is the outcome of the store
\* call the card awaits, resolved the outcome of resolveImageSource.  peers
\* are the cards whose call for the same store and key was unsettled when
\* this card made its own.  events is what has happened to the card, in
\* order: "placeholder" (img.src = placeholderImage), "resolveImageSource"
\* (the call of line 540), "fetch" (a request sent inside that call),
\* "appendChild" (line 523) and "then" (the then/catch handler has set
\* img.src).
createProjectCard(w, project, sectionKey, boot) ==
    LET Card(r, key) ==
            [project |-> project, section |-> sectionKey, boot |-> boot,
             via |-> r.via, key |-> key, awaiting |-> r.pid,
             peers |-> {j \in DOMAIN w.cards : /\ w.cards[j].via = r.via
                                               /\ w.cards[j].key = key
                                               /\ r.via # "none"
                                               /\ w.cards[j].fetched.st = "pending"},
             fetched |-> IF r.via = "none" THEN [st |-> "none", val |-> <<>>] ELSE r.out,
             resolved |-> IF r.via = "none" THEN r.out ELSE Pending,
             src |-> placeholderImage,
             events |-> <<"placeholder", "resolveImageSource">> \o (IF r.w.calls # w.calls THEN <<"fetch">> ELSE <<>>)]
        Create(r) == [r.w EXCEPT !.cards = Append(@, Card(r, RequestKey(r.via, project.url)))]
    IN  Create(resolveImageSource(w, project, sectionKey))

\* The promise reactions of one card: an awaited store call that has
\* settled resumes resolveMobileImage, and a settled resolveImageSource runs
\* the card's then/catch handler.
RunCard(w, card) ==
    LET Handlers(fetched, resolved) ==
            [card EXCEPT !.fetched = fetched, !.resolved = resolved,
                         !.src = IF resolved.st = "pending" THEN @ ELSE CardImage(resolved),
                         !.events = IF resolved.st = "pending" \/ "then" \in Range(@) THEN @ ELSE Append(@, "then")]
        Resume(fetched) ==
            Handlers(fetched, IF card.resolved.st = "pending" /\ fetched.st \in {"ok", "err"}
                              THEN MobileImageResult(card.project, fetched)
                              ELSE card.resolved)
    IN  Resume(IF card.fetched.st = "pending" /\ card.awaiting # 0 /\ w.promises[card.awaiting].st # "pending"
               THEN [st |-> w.promises[card.awaiting].st, val |-> w.promises[card.awaiting].val]
               ELSE card.fetched)

\* Mutant of RunCards: the cards are awaited in turn, a card is not looked
\* at while one before it is unresolved.
RunCardsInTurn(w) ==
    [w EXCEPT !.cards = [i \in DOMAIN @ |-> IF \E k \in 1..(i - 1) : RunCard(w, w.cards[k]).resolved.st = "pending"
                                            THEN w.cards[i]
                                            ELSE RunCard(w, w.cards[i])]]

RunCards(w) == [w EXCEPT !.cards = [i \in DOMAIN @ |-> RunCard(w, w.cards[i])]]

\* All promise reactions that are ready, run to completion.
RunMicrotasks(w) == RunCards(AwaitFallback(w))

\* ---------------------------------------------------------------- renderer
\* cardsContainer.appendChild(card), the card being the newest one.
AppendNewestCard(w, s) ==
    [w EXCEPT !.sections[s].cards = Append(@, Len(w.cards)),
              !.cards[Len(w.cards)].events = Append(@, "appendChild")]

\* projects.forEach of renderSection: a card per project, each appended to
\* the cards container of section number s.
RECURSIVE RenderCards(_, _, _, _, _)
RenderCards(w, s, sectionKey, projects, boot) ==
    IF projects = <<>> THEN w
    ELSE RenderCards(AppendNewestCard(createProjectCard(w, Head(projects), sectionKey, boot), s),
                     s, sectionKey, Tail(projects), boot)

\* Mutant of renderSection: no empty-state paragraph for an empty list.
renderSectionNoEmptyState(w, s, sectionKey, projects, boot) == RenderCards(w, s, sectionKey, projects, boot)

\* renderSection on the section element number s.
renderSection(w, s, sectionKey, projects, boot) ==
    IF projects = <<>> THEN [w EXCEPT !.sections[s].empty = @ + 1]
    ELSE RenderCards(w, s, sectionKey, projects, boot)

\* nav.appendChild(createNavLink(..)); sectionsContainer.appendChild(sectionEl)
AppendSection(w, sectionKey) ==
    LET Both(slug) == [w EXCEPT !.nav = Append(@, createNavLink(sectionKey, slug)),
                                !.sections = Append(@, buildSectionElement(sectionKey, slug))]
    IN  Both(SectionSlug(sectionKey, Len(w.nav)))

\* The body of the forEach of renderPortfolioSections for one manifest
\* entry after another.
RECURSIVE RenderEntries(_, _, _)
RenderEntries(w, entries, boot) ==
    LET One(sectionKey) == renderSection(AppendSection(w, sectionKey), Len(w.sections) + 1, sectionKey, Head(entries).items, boot)
    IN  IF entries = <<>> THEN w
        ELSE RenderEntries(One(Trim(Head(entries).key)), Tail(entries), boot)

renderPortfolioSections(w, hasContainers, portfolioData, boot) ==
    IF ~hasContainers THEN w
    ELSE RenderEntries([w EXCEPT !.nav = <<>>, !.sections = <<>>], portfolioData, boot)

\* ------------------------------------------------------- theme controller
\* The state the theme controller works on, as one record:
\*   pc            "loading" before initializeTheme() has run, then "ready"
\*   attribute     data-theme of the document root ("none" for null)
\*   stored        localStorage entry preferred-theme ("none" for null)
\*   storageReads  localStorage.getItem does not throw
\*   storageWrites localStorage.setItem does not throw
\*   matchMedia    window.matchMedia exists
\*   systemDark    (prefers-color-scheme: dark) matches
\*   button        #theme-toggle exists
\*   pressed       what syncThemeToggleUI last showed on the button
\*                 (aria-pressed, aria-label, title), "none" before it ran
\*   labelElement  the button has a [data-theme-label] child
\*   iconElement   the button has a [data-theme-icon] child
\*   label         the theme the label's text names, "none" for the markup's
\*   icon          the theme the icon stands for, "none" for the markup's
\*   listening     the click listener is on the button
\*   observing     handleChange is subscribed to the media query
\*   uncaught      an exception has escaped a function of the controller
\*   wrote         localStorage.setItem was called by the latest function
\*                 run from the event loop
\*   choiceAtInit  what initializeTheme read from storage
\*   clicked       the toggle has been clicked
\*   clickRun      the attribute before each of the latest clicks (at most
\*                 two) that no other event has come between
ThemeNames == {"dark", "light", "sepia"}

ThemeEnvironments ==
    { [pc |-> "loading", attribute |-> a, stored |-> s, storageReads |-> r, storageWrites |-> wr,
       matchMedia |-> mm, systemDark |-> sd, button |-> b, pressed |-> "none",
       labelElement |-> le, iconElement |-> ie, label |-> "none", icon |-> "none",
       listening |-> FALSE, observing |-> FALSE, uncaught |-> FALSE, wrote |-> FALSE,
       choiceAtInit |-> "none", clicked |-> FALSE, clickRun |-> <<>>] :
      a \in ThemeNames \cup {"none"}, s \in {"none", "dark", "light"},
      r \in BOOLEAN, wr \in BOOLEAN, mm \in BOOLEAN, sd \in BOOLEAN, b \in BOOLEAN,
      le \in BOOLEAN, ie \in BOOLEAN }

\* A browser with working storage that holds no choice, no data-theme in
\* the markup, a light system theme and the toggle button present.
PlainBrowser ==
    [pc |-> "loading", attribute |-> "none", stored |-> "none", storageReads |-> TRUE, storageWrites |-> TRUE,
     matchMedia |-> TRUE, systemDark |-> FALSE, button |-> TRUE, pressed |-> "none",
     labelElement |-> TRUE, iconElement |-> TRUE, label |-> "none", icon |-> "none",
     listening |-> FALSE, observing |-> FALSE, uncaught |-> FALSE, wrote |-> FALSE,
     choiceAtInit |-> "none", clicked |-> FALSE, clickRun |-> <<>>]

\* getStoredTheme: the entry, null when reading throws.
getStoredTheme(t) == IF t.storageReads THEN t.stored ELSE "none"

getCurrentTheme(t) == IF t.attribute = "dark" THEN "dark" ELSE "light"

\* Mutant of applyTheme: no try/catch around localStorage.setItem.
applyThemeUncaught(t, newTheme, persist) ==
    IF ~persist THEN [t EXCEPT !.attribute = newTheme]
    ELSE IF t.storageWrites THEN [t EXCEPT !.attribute = newTheme, !.stored = newTheme, !.wrote = TRUE]
    ELSE [t EXCEPT !.attribute = newTheme, !.wrote = TRUE, !.uncaught = TRUE]

\* applyTheme: the attribute, then setItem inside try/catch when persist.
applyTheme(t, newTheme, persist) ==
    IF ~persist THEN [t EXCEPT !.attribute = newTheme]
    ELSE IF t.storageWrites THEN [t EXCEPT !.attribute = newTheme, !.stored = newTheme, !.wrote = TRUE]
    ELSE [t EXCEPT !.attribute = newTheme, !.wrote = TRUE]

syncThemeToggleUI(t, shown) ==
    LET Show(isDark) ==
            [t EXCEPT !.pressed = isDark,
                      !.label = IF t.labelElement THEN isDark ELSE @,
                      !.icon = IF t.iconElement THEN isDark ELSE @]
    IN  IF ~t.button THEN t
        ELSE Show(IF shown = "dark" THEN "dark" ELSE "light")

setupThemeToggle(t) ==
    IF ~t.button THEN t
    ELSE [syncThemeToggleUI(t, getCurrentTheme(t)) EXCEPT !.listening = TRUE]

observeSystemTheme(t) == IF ~t.matchMedia THEN t ELSE [t EXCEPT !.observing = TRUE]

\* A function that runs after one that has thrown does not run.
Then(t, after) == IF t.uncaught THEN t ELSE after

\* Mutant of initializeTheme: the attribute of the markup comes before the
\* stored choice.
initializeThemeAttributeFirst(t) ==
    LET Start(storedTheme, initialTheme) ==
            LET applied == applyTheme(t, initialTheme, storedTheme # "none")
                toggled == Then(applied, setupThemeToggle(applied))
            IN  Then(toggled, IF storedTheme = "none" THEN observeSystemTheme(toggled) ELSE toggled)
    IN  Start(getStoredTheme(t),
              IF t.attribute # "none" THEN t.attribute
              ELSE IF getStoredTheme(t) # "none" THEN getStoredTheme(t)
              ELSE IF t.matchMedia /\ t.systemDark THEN "dark"
              ELSE "light")

initializeTheme(t) ==
    LET Start(storedTheme, initialTheme) ==
            LET applied == applyTheme(t, initialTheme, storedTheme # "none")
                toggled == Then(applied, setupThemeToggle(applied))
            IN  Then(toggled, IF storedTheme = "none" THEN observeSystemTheme(toggled) ELSE toggled)
    IN  Start(getStoredTheme(t),
              IF getStoredTheme(t) # "none" THEN getStoredTheme(t)
              ELSE IF t.attribute # "none" THEN t.attribute
              ELSE IF t.matchMedia /\ t.systemDark THEN "dark"
              ELSE "light")

\* Mutant of ClickHandler: the click applies the theme without persisting.
ClickHandlerForgets(t) ==
    LET Flip(nextTheme) ==
            LET applied == applyTheme(t, nextTheme, FALSE)
            IN  Then(applied, syncThemeToggleUI(applied, nextTheme))
    IN  Flip(IF getCurrentTheme(t) = "dark" THEN "light" ELSE "dark")

\* The click listener of the toggle button.
ClickHandler(t) ==
    LET Flip(nextTheme) ==
            LET applied == applyTheme(t, nextTheme, TRUE)
            IN  Then(applied, syncThemeToggleUI(applied, nextTheme))
    IN  Flip(IF getCurrentTheme(t) = "dark" THEN "light" ELSE "dark")

\* Mutant of handleChange: getStoredTheme() is not tested.
handleChangeAlways(t, matches) ==
    LET Prefer(preferred) ==
            LET applied == applyTheme(t, preferred, FALSE)
            IN  Then(applied, syncThemeToggleUI(applied, preferred))
    IN  Prefer(IF matches THEN "dark" ELSE "light")

\* Mutant of handleChange: the theme is applied, the toggle is not synced.
handleChangeSilent(t, matches) ==
    IF getStoredTheme(t) # "none" THEN t
    ELSE applyTheme(t, IF matches THEN "dark" ELSE "light", FALSE)

\* handleChange, the listener of the media query, on an event whose
\* matches property is matches.
handleChange(t, matches) ==
    LET Prefer(preferred) ==
            LET applied == applyTheme(t, preferred, FALSE)
            IN  Then(applied, syncThemeToggleUI(applied, preferred))
    IN  IF getStoredTheme(t) # "none" THEN t
        ELSE Prefer(IF matches THEN "dark" ELSE "light")

\* The state once initializeTheme() of line 292 has run in environment t.
Loaded(t) == [initializeTheme(t) EXCEPT !.pc = "ready", !.choiceAtInit = getStoredTheme(t)]

\* The latest two entries of run with before added.
LatestTwo(run, before) == IF run = <<>> THEN <<before>> ELSE <<run[Len(run)], before>>

\* ------------------------------------------------------------------ actions
Become(w) ==
    /\ nav' = w.nav
    /\ sections' = w.sections
    /\ cards' = w.cards
    /\ promises' = w.promises
    /\ appleLookupCache' = w.appleLookupCache
    /\ googleLookupCache' = w.googleLookupCache
    /\ calls' = w.calls

Init ==
    /\ mainExists \in BOOLEAN
    /\ containersExist \in {c \in BOOLEAN : c => mainExists}
    /\ boots = <<>>
    /\ notices = 0
    /\ nav = <<>>
    /\ sections = <<>>
    /\ cards = <<>>
    /\ promises = <<>>
    /\ appleLookupCache = <<>>
    /\ googleLookupCache = <<>>
    /\ calls = {}
    /\ theme = Loaded(PlainBrowser)

\* What the transport answers to the manifest request: as Response, with
\* data the parsed manifest.
ManifestResponse(net, ok, json, data) == [net |-> net, ok |-> ok, json |-> json, data |-> data]

ManifestResponses ==
    { ManifestResponse(FALSE, FALSE, FALSE, <<>>),
      ManifestResponse(TRUE, TRUE, FALSE, <<>>),
      ManifestResponse(TRUE, FALSE, TRUE, << Entry(KeyMobile, <<IosFr>>) >>) }
    \cup { ManifestResponse(TRUE, TRUE, TRUE, m) : m \in Manifests }

\* How the answer looks from outside the script.
ResponseClass(resp) ==
    IF ~resp.net THEN "rejected" ELSE IF ~resp.ok THEN "status" ELSE IF ~resp.json THEN "parse" ELSE "ok"

\* Mutant of ManifestThrows: response.ok is not tested.
ManifestThrowsIgnoresStatus(resp) == ~resp.net \/ ~resp.json

\* The try block of bootstrapPortfolio throws: fetch rejected, the status
\* is not ok, or response.json() rejected.
ManifestThrows(resp) == ~resp.net \/ ~resp.ok \/ ~resp.json

\* bootstrapPortfolio() up to its first await: the manifest is requested.
BootstrapPortfolio ==
    /\ Len(boots) < MaxBoot
    /\ boots' = Append(boots, [pc |-> "fetching", resp |-> "pending"])
    /\ UNCHANGED <<mainExists, containersExist, notices, nav, sections, cards, promises, appleLookupCache, googleLookupCache, calls, theme>>

\* The manifest request of bootstrap b is answered and the try block
\* throws: the catch block prepends the notice.
ManifestFails(b, resp) ==
    /\ boots[b].pc = "fetching"
    /\ ManifestThrows(resp)
    /\ boots' = [boots EXCEPT ![b] = [pc |-> "failed", resp |-> ResponseClass(resp)]]
    /\ notices' = IF mainExists THEN notices + 1 ELSE notices
    /\ UNCHANGED <<mainExists, containersExist, nav, sections, cards, promises, appleLookupCache, googleLookupCache, calls, theme>>

\* The manifest of bootstrap b arrives and is rendered.
ManifestLoads(b, resp) ==
    /\ boots[b].pc = "fetching"
    /\ ~ManifestThrows(resp)
    /\ Len(cards) + ProjectCount(resp.data) <= MaxCards
    /\ boots' = [boots EXCEPT ![b] = [pc |-> "rendered", resp |-> ResponseClass(resp)]]
    /\ Become(RunMicrotasks(renderPortfolioSections(World, containersExist, resp.data, b)))
    /\ UNCHANGED <<mainExists, containersExist, notices, theme>>

\* resolveAppleArtwork of promise pid has ended with r: fulfilment settles
\* the promise, a rejection runs the catch handler if there is one.
AppleContinue(w, pid, r) ==
    IF r.st = "ok" THEN Settle(w, pid, r)
    ELSE IF w.promises[pid].handled THEN AppleCatch(w, pid, r)
    ELSE Settle(w, pid, r)

\* Mutant of GoogleContinue: the loop gives up at the first endpoint that
\* fails.
GoogleContinueFirstOnly(w, pid, mirror, r) ==
    IF r.st = "ok" THEN Settle(w, pid, r) ELSE GoogleCatch(w, pid, r)

\* The endpoint loop of resolveGoogleArtwork after endpoint number mirror
\* has given r: return the image, try the next endpoint, or throw the last
\* error into the catch handler.
GoogleContinue(w, pid, mirror, r) ==
    IF r.st = "ok" THEN Settle(w, pid, r)
    ELSE IF mirror < Len(playStoreProxyEndpoints) THEN SendRequest(w, pid, <<>>, mirror + 1)
    ELSE GoogleCatch(w, pid, r)

\* The lookup endpoint answers request c of an Apple lookup.
AppleAnswer(c, resp) ==
    LET Answered(r) == AppleContinue(LogAnswer([World EXCEPT !.calls = @ \ {c}], c.pid, r), c.pid, r)
    IN  /\ Become(RunMicrotasks(Answered(resolveAppleArtwork(resp))))
        /\ UNCHANGED <<mainExists, containersExist, boots, notices, theme>>

\* A proxy endpoint answers request c of a Google lookup.
GoogleAnswer(c, resp) ==
    LET Answered(r) == GoogleContinue(LogAnswer([World EXCEPT !.calls = @ \ {c}], c.pid, r), c.pid, c.mirror, r)
    IN  /\ Become(RunMicrotasks(Answered(TryEndpoint(resp))))
        /\ UNCHANGED <<mainExists, containersExist, boots, notices, theme>>

Next ==
    \/ BootstrapPortfolio
    \/ \E b \in DOMAIN boots : \E resp \in ManifestResponses : ManifestFails(b, resp)
    \/ \E b \in DOMAIN boots : \E resp \in ManifestResponses : ManifestLoads(b, resp)
    \/ \E c \in calls : c.store = "apple" /\ \E resp \in AppleResponses(c.country) : AppleAnswer(c, resp)
    \/ \E c \in calls : c.store = "google" /\ \E resp \in GoogleResponses(c.mirror) : GoogleAnswer(c, resp)

Spec == Init /\ [][Next]_vars

\* The step that answers request c, seen on the requests in flight: c is
\* gone, and the only request a step of c's own lookup can add is the one
\* for the next proxy endpoint.  Among the steps of Next these are the
\* steps AppleAnswer(c, resp) and GoogleAnswer(c, resp).
AppleAnswered(c) ==
    calls' = calls \ {c}

GoogleAnswered(c) ==
    calls' \in {calls \ {c}, (calls \ {c}) \cup {[c EXCEPT !.mirror = @ + 1]}}

\* The page where every request is answered in the end, except those of
\* the lookup endpoint for a country other than US, which may stay
\* unanswered for ever.
Responsive ==
    /\ WF_calls(\E c \in calls : c.store = "apple" /\ c.country = US /\ AppleAnswered(c))
    /\ WF_calls(\E c \in calls : c.store = "google" /\ GoogleAnswered(c))

LiveSpec == Init /\ [][Next]_vars /\ Responsive

\* ------------------------------------------------ theme controller alone
\* The theme controller shares no state with the portfolio: it is run on
\* its own, over every environment, on a page whose portfolio is idle.
PortfolioIdle ==
    /\ mainExists = TRUE
    /\ containersExist = TRUE
    /\ boots = <<>>
    /\ notices = 0
    /\ nav = <<>>
    /\ sections = <<>>
    /\ cards = <<>>
    /\ promises = <<>>
    /\ appleLookupCache = <<>>
    /\ googleLookupCache = <<>>
    /\ calls = {}

ThemeInit ==
    /\ PortfolioIdle
    /\ theme \in {t \in ThemeEnvironments : /\ ~t.storageReads => t.stored = "none"
                                            /\ ~t.matchMedia => ~t.systemDark
                                            /\ ~t.button => (~t.labelElement /\ ~t.iconElement)}

\* initializeTheme() at line 292.
InitializeTheme ==
    /\ theme.pc = "loading"
    /\ theme' = Loaded(theme)
    /\ UNCHANGED <<mainExists, containersExist, boots, notices, nav, sections, cards, promises, appleLookupCache, googleLookupCache, calls>>

\* The user clicks the toggle button.
ToggleClick ==
    /\ theme.pc = "ready"
    /\ theme.listening
    /\ theme' = [ClickHandler([theme EXCEPT !.wrote = FALSE]) EXCEPT !.clicked = TRUE, !.clickRun = LatestTwo(theme.clickRun, theme.attribute)]
    /\ UNCHANGED <<mainExists, containersExist, boots, notices, nav, sections, cards, promises, appleLookupCache, googleLookupCache, calls>>

\* The system theme changes; the media query tells its listener.
SystemThemeChange ==
    LET Changed(t) == IF t.observing THEN handleChange(t, t.systemDark) ELSE t
    IN  /\ theme.pc = "ready"
        /\ theme.matchMedia
        /\ theme' = [Changed([theme EXCEPT !.systemDark = ~@, !.wrote = FALSE]) EXCEPT !.clickRun = <<>>]
        /\ UNCHANGED <<mainExists, containersExist, boots, notices, nav, sections, cards, promises, appleLookupCache, googleLookupCache, calls>>

ThemeNext ==
    \/ InitializeTheme
    \/ ToggleClick
    \/ SystemThemeChange

ThemeSpec == ThemeInit /\ [][ThemeNext]_vars

\* ------------------------------------------------------ section keys alone
\* Manifests of empty sections under every key of up to MaxKeyLen
\* characters of KeyAlphabet, and under two short keys, rendered on the idle
\* page by the bootstrapPortfolio() of line 294.
KeyAlphabet == {"a", "B", "7", " ", "-", "_", "!"}

SectionKeys == UNION {[1..n -> KeyAlphabet] : n \in 0..MaxKeyLen}

PairKeys == {<<>>, <<"!">>, <<"a">>, <<"-">>}

SlugManifests ==
    {<<Entry(k, <<>>)>> : k \in SectionKeys}
        \cup {<<Entry(pair[1], <<>>), Entry(pair[2], <<>>)>> : pair \in {q \in PairKeys \X PairKeys : q[1] # q[2]}}

SlugInit ==
    /\ mainExists = TRUE
    /\ containersExist = TRUE
    /\ boots = <<[pc |-> "fetching", resp |-> "pending"]>>
    /\ notices = 0
    /\ nav = <<>>
    /\ sections = <<>>
    /\ cards = <<>>
    /\ promises = <<>>
    /\ appleLookupCache = <<>>
    /\ googleLookupCache = <<>>
    /\ calls = {}
    /\ theme = Loaded(PlainBrowser)

SlugNext == \E m \in SlugManifests : ManifestLoads(1, ManifestResponse(TRUE, TRUE, TRUE, m))

SlugSpec == SlugInit /\ [][SlugNext]_vars

\* ------------------------------------------------------------------ claims
SameLookupKey(c1, c2) == c1.store = c2.store /\ c1.id = c2.id /\ c1.country = c2.country

\* Card i made its store call before card j, for the same store and key,
\* and that call had settled when card j made its own.
SettledBefore(i, j) ==
    /\ i < j
    /\ cards[i].via = cards[j].via
    /\ cards[i].key = cards[j].key
    /\ cards[i].key # <<>>
    /\ i \notin cards[j].peers

\* C1: at most one network lookup per cache key is in flight, and a request
\* made while another request for the same key is unsettled awaits that
\* request's lookup instead of issuing its own.
C1_OneLookupPerKey ==
    /\ \A c1, c2 \in calls : SameLookupKey(c1, c2) => c1 = c2
    /\ \A j \in DOMAIN cards : \A i \in cards[j].peers :
          cards[j].awaiting # 0 /\ cards[j].awaiting = cards[i].awaiting

\* Two cards wait for one key while exactly its one lookup is in flight.
C1_Witness ==
    \E j \in DOMAIN cards :
        /\ cards[j].peers # {}
        /\ cards[j].fetched.st = "pending"
        /\ Cardinality({c \in calls : c.pid = cards[j].awaiting}) = 1

\* C2: requests for the same key that overlap in time see the same outcome:
\* both unsettled, both the same artwork, or both the same error.
C2_SharedOutcome ==
    \A j \in DOMAIN cards : \A i \in cards[j].peers : cards[i].fetched = cards[j].fetched

\* Two overlapping requests have both failed.
C2_Witness ==
    \E j \in DOMAIN cards : \E i \in cards[j].peers :
        cards[i].fetched.st = "err" /\ cards[j].fetched.st = "err"

\* C3: a promise of fetchAppleArtwork that has been rejected, whatever its
\* country, is no longer the cache entry of its key.
C3_AppleFailureEvicted ==
    \A pid \in DOMAIN promises :
        (promises[pid].store = "apple" /\ promises[pid].handled /\ promises[pid].st = "err")
            => ~(CacheHas(appleLookupCache, promises[pid].key) /\ appleLookupCache[promises[pid].key] = pid)

\* C4: a rejected promise of fetchGoogleArtwork is no longer the cache entry
\* of its package id, and a request made after the failure awaits a new
\* lookup, whose first request went to the first endpoint.
C4_GoogleFailureEvicted ==
    /\ \A pid \in DOMAIN promises :
          (promises[pid].store = "google" /\ promises[pid].st = "err")
              => ~(CacheHas(googleLookupCache, promises[pid].key) /\ googleLookupCache[promises[pid].key] = pid)
    /\ \A j \in DOMAIN cards : \A i \in DOMAIN cards :
          (SettledBefore(i, j) /\ cards[j].via = "google" /\ cards[i].fetched.st = "err")
              => /\ cards[j].awaiting # 0
                 /\ cards[j].awaiting # cards[i].awaiting
                 /\ promises[cards[j].awaiting].log # <<>>
                 /\ promises[cards[j].awaiting].log[1].mirror = 1

\* A Play Store request made after a failed one for the same package.
C4_Witness ==
    \E j \in DOMAIN cards : \E i \in DOMAIN cards :
        /\ SettledBefore(i, j)
        /\ cards[j].via = "google"
        /\ cards[i].fetched.st = "err"
        /\ Len(promises[cards[i].awaiting].log) = Len(playStoreProxyEndpoints)

\* What C5 asks of one step for the cache entries that hold a fulfilled
\* promise: the entry and the promise stay as they are, no new lookup is
\* started for the key, and a card created in the step gets that promise
\* and its value.
ResolvedStays(store, cache, cacheAfter) ==
    \A k \in DOMAIN cache :
        promises[cache[k]].st = "ok"
            => /\ k \in DOMAIN cacheAfter
               /\ cacheAfter[k] = cache[k]
               /\ promises'[cache[k]] = promises[cache[k]]
               /\ \A pid \in DOMAIN promises' \ DOMAIN promises : promises'[pid].key # k
               /\ \A j \in DOMAIN cards' \ DOMAIN cards :
                     (cards'[j].via = store /\ cards'[j].key = k)
                         => /\ cards'[j].awaiting = cache[k]
                            /\ cards'[j].fetched = [st |-> "ok", val |-> promises[cache[k]].val]

\* C5: once the lookup of a key has succeeded, its cache entry is never
\* removed or replaced, and every later request for the key gets the same
\* value without a network call.
C5_ResolvedIsTerminal ==
    [][ResolvedStays("apple", appleLookupCache, appleLookupCache') /\ ResolvedStays("google", googleLookupCache, googleLookupCache')]_vars

\* A request served from an entry that an earlier request had resolved.
C5_Witness ==
    \E j \in DOMAIN cards : \E i \in DOMAIN cards :
        /\ SettledBefore(i, j)
        /\ cards[i].fetched.st = "ok"
        /\ cards[j].fetched.st = "ok"
        /\ cards[j].awaiting = cards[i].awaiting

\* C6 as stated: a card whose project has a non-empty cover_image shows
\* exactly that string and its resolution called no store function.
C6_CoverImageWins ==
    \A j \in DOMAIN cards :
        cards[j].project.cover_image # <<>>
            => cards[j].src = cards[j].project.cover_image /\ cards[j].via = "none" /\ cards[j].awaiting = 0

\* C6 amended: a card whose project has a cover_image that is not blank
\* shows the cover_image with its surrounding white space removed, in every
\* section and for every platform, and its resolution called no store
\* function.
C6_TrimmedCoverImageWins ==
    \A j \in DOMAIN cards :
        Trim(cards[j].project.cover_image) # <<>>
            => /\ cards[j].src = Trim(cards[j].project.cover_image)
               /\ cards[j].via = "none"
               /\ cards[j].awaiting = 0
               /\ cards[j].resolved.st = "ok"

\* A card of the mobile section with an iOS platform shows its cover image.
C6_Witness ==
    \E j \in DOMAIN cards :
        /\ Trim(cards[j].project.cover_image) # <<>>
        /\ cards[j].section = <<"m","o","b","i","l","e">>
        /\ Includes(ToLowerCase(cards[j].project.platform), <<"i","o","s">>)
        /\ cards[j].src = Trim(cards[j].project.cover_image)

\* C7: the promise of resolveImageSource is never rejected, and when the
\* store call of a card has failed it is fulfilled with the project's cover
\* image or the placeholder, which the card then shows.
C7_ResolveNeverRaises ==
    \A j \in DOMAIN cards :
        /\ cards[j].resolved.st # "err"
        /\ cards[j].fetched.st = "err"
              => /\ cards[j].resolved.st = "ok"
                 /\ cards[j].resolved.val # <<>>
                 /\ cards[j].resolved.val \in {Trim(cards[j].project.cover_image), placeholderImage}
                 /\ cards[j].src = cards[j].resolved.val

\* A card whose lookup failed on the network shows the placeholder.
C7_Witness ==
    \E j \in DOMAIN cards :
        /\ cards[j].fetched.st = "err"
        /\ cards[j].awaiting # 0
        /\ cards[j].resolved.st = "ok"
        /\ cards[j].src = placeholderImage

\* What C8 asks of the Apple lookup promise number pid.
CountryFallbackOf(pid) ==
    LET p == promises[pid]
    IN  /\ Len(p.log) = 1
        /\ p.log[1].country = p.country
        /\ p.log[1].st = "ok" => (p.st = "ok" /\ p.val = p.log[1].val)
        /\ (p.handled /\ p.country = US)
              => /\ p.fb = 0
                 /\ p.log[1].st = "err" => (p.st = "err" /\ p.val = p.log[1].val)
        /\ (p.handled /\ p.country # US)
              => /\ p.fb # 0 <=> p.log[1].st = "err"
                 /\ p.fb # 0 => /\ p.fb # pid
                                /\ promises[p.fb].id = p.id
                                /\ promises[p.fb].country = US
                                /\ promises[p.fb].key = AppleCacheKey(p.id, US)
                                /\ p.st = promises[p.fb].st
                                /\ p.val = promises[p.fb].val
        /\ ~p.handled
              => /\ p.country = US
                 /\ \E o \in 1..(pid - 1) : promises[o].fb = pid /\ promises[o].log[1].st = "err"

\* C8: a url without country segment is looked up in US and one with /fr/
\* in FR; a failed lookup of another country than US is followed by the US
\* lookup (one request, or the entry of the US key), started after the
\* failure, and its outcome is the caller's; a failed US lookup is final.
C8_CountryFallback ==
    /\ \A j \in DOMAIN cards :
          (cards[j].via = "apple" /\ cards[j].awaiting # 0)
              => /\ cards[j].project.url \in {UrlAppleNone, UrlAppleUs} => promises[cards[j].awaiting].country = <<"U","S">>
                 /\ cards[j].project.url = UrlAppleFr => promises[cards[j].awaiting].country = <<"F","R">>
    /\ \A pid \in DOMAIN promises : promises[pid].store = "apple" => CountryFallbackOf(pid)

\* The FR lookup failed and its caller got the artwork of the US store.
C8_Witness ==
    \E pid \in DOMAIN promises :
        /\ promises[pid].country = <<"F","R">>
        /\ promises[pid].log[1].st = "err"
        /\ promises[pid].st = "ok"
        /\ promises[pid].val = <<"U", "S", "512x512bb">>

\* What C9 asks of the Google lookup promise number pid.
MirrorFallbackOf(pid) ==
    LET p == promises[pid]
        n == Len(p.log)
    IN  /\ n \in 1..Len(playStoreProxyEndpoints)
        /\ \A i \in 1..n : p.log[i].mirror = i
        /\ \A i \in 1..(n - 1) : p.log[i].st = "err"
        /\ p.st = "pending" <=> p.log[n].st = "pending"
        /\ p.log[n].st = "pending" <=> (\E c \in calls : c.pid = pid /\ c.mirror = n)
        /\ p.st = "ok" => (p.log[n].st = "ok" /\ p.val = p.log[n].val)
        /\ p.st = "err" => (n = Len(playStoreProxyEndpoints) /\ p.log[n].st = "err" /\ p.val = p.log[n].val)

\* C9: the endpoints are requested in list order, each only after the one
\* before it has failed and none after a success; the first success is the
\* result, and a failure is seen only when all have failed and is the last
\* endpoint's error.
C9_MirrorFallback ==
    /\ \A pid \in DOMAIN promises : promises[pid].store = "google" => MirrorFallbackOf(pid)
    /\ \A j \in DOMAIN cards :
          (cards[j].via = "google" /\ cards[j].awaiting # 0 /\ cards[j].fetched.st # "pending")
              => cards[j].fetched = [st |-> promises[cards[j].awaiting].st, val |-> promises[cards[j].awaiting].val]

\* The first endpoint failed and the second one gave the image.
C9_Witness ==
    \E pid \in DOMAIN promises :
        /\ promises[pid].store = "google"
        /\ Len(promises[pid].log) = 2
        /\ promises[pid].log[1].st = "err"
        /\ promises[pid].st = "ok"
        /\ promises[pid].val = promises[pid].log[2].val

\* C10: the step in which a manifest request is answered with a status
\* that is not ok, or with a body that does not parse, adds one notice to
\* main (when main exists) and changes neither the navigation, the
\* sections, the cards, the lookups nor the caches.
C10_ManifestFailureNotice ==
    [][\A b \in DOMAIN boots :
          (boots[b].resp = "pending" /\ boots'[b].resp \in {"status", "parse"} /\ mainExists)
              => /\ notices' = notices + 1
                 /\ UNCHANGED <<nav, sections, cards, promises, appleLookupCache, googleLookupCache, calls>>]_vars

\* Both manifest requests failed, one by status and one by parsing: two
\* notices and an empty page.
C10_Witness ==
    /\ mainExists
    /\ containersExist
    /\ \E b \in DOMAIN boots : boots[b].resp = "status"
    /\ \E b \in DOMAIN boots : boots[b].resp = "parse"
    /\ notices = 2
    /\ nav = <<>> /\ sections = <<>> /\ cards = <<>> /\ calls = {} /\ promises = <<>>

\* C11: initializeTheme applies the stored choice, else the attribute of
\* the document root, else dark when the system prefers dark, else light;
\* it calls setItem exactly when there was a stored choice, and the stored
\* entry is the same after it as before.
C11_InitialThemePriority ==
    [][(theme.pc = "loading" /\ theme'.pc = "ready")
          => /\ theme'.attribute = (IF theme.stored # "none" THEN theme.stored
                                    ELSE IF theme.attribute # "none" THEN theme.attribute
                                    ELSE IF theme.systemDark THEN "dark"
                                    ELSE "light")
             /\ theme'.wrote <=> theme.stored # "none"
             /\ theme'.stored = theme.stored]_vars

\* Initialized from the attribute of the markup, nothing being stored,
\* although the system prefers dark; nothing was written.
C11_Witness ==
    /\ theme.pc = "ready"
    /\ ~theme.clicked
    /\ theme.choiceAtInit = "none"
    /\ theme.attribute = "sepia"
    /\ theme.systemDark
    /\ theme.stored = "none"
    /\ ~theme.wrote

\* C12: a change of the system theme is applied, and not stored, while
\* nothing was stored at initialization and the toggle has not been clicked;
\* it leaves the applied theme alone once the toggle has been clicked, and
\* when a choice was stored at initialization; with and without storage.
C12_SystemThemeUntilChoice ==
    [][theme'.systemDark # theme.systemDark
          => /\ (theme.choiceAtInit = "none" /\ ~theme.clicked)
                    => /\ theme'.attribute = (IF theme'.systemDark THEN "dark" ELSE "light")
                       /\ theme'.stored = theme.stored
                       /\ ~theme'.wrote
             /\ theme.clicked => theme'.attribute = theme.attribute
             /\ theme.choiceAtInit # "none" => theme'.attribute = theme.attribute]_vars

\* What a click makes of the applied theme.
Flipped(applied) == IF applied = "dark" THEN "light" ELSE "dark"

\* C13 as stated: after a click the applied theme is the flipped one and
\* is the stored entry, and after two clicks in a row it is the theme of
\* before them.
C13_ClickFlipsAndPersists ==
    theme.clickRun # <<>>
        => /\ theme.attribute = Flipped(theme.clickRun[Len(theme.clickRun)])
           /\ theme.stored = theme.attribute
           /\ Len(theme.clickRun) = 2 => theme.attribute = theme.clickRun[1]

\* C13 amended: after a click the applied theme is the flipped one,
\* setItem has been called, and the stored entry is the new theme when
\* setItem does not throw; two clicks in a row restore a theme that was
\* dark or light and leave light after any other.
C13_ClickFlipsAndPersistsIfWritable ==
    theme.clickRun # <<>>
        => /\ theme.attribute = Flipped(theme.clickRun[Len(theme.clickRun)])
           /\ theme.wrote
           /\ theme.storageWrites => theme.stored = theme.attribute
           /\ Len(theme.clickRun) = 2
                 => theme.attribute = (IF theme.clickRun[1] \in {"dark", "light"} THEN theme.clickRun[1] ELSE "light")

\* Two clicks in a row on a dark page with working storage: dark again,
\* and stored.
C13_Witness ==
    /\ theme.clickRun = <<"dark", "light">>
    /\ theme.attribute = "dark"
    /\ theme.stored = "dark"
    /\ theme.storageWrites

\* C14: where getItem or setItem throws, a theme is applied once
\* initializeTheme has run, the button shows the applied theme, a click has
\* flipped the theme, and no exception has escaped.
C14_StorageFailureSwallowed ==
    (theme.pc = "ready" /\ (~theme.storageReads \/ ~theme.storageWrites))
        => /\ ~theme.uncaught
           /\ theme.attribute \in ThemeNames
           /\ theme.button => theme.pressed = getCurrentTheme(theme)
           /\ theme.clickRun # <<>> => theme.attribute = Flipped(theme.clickRun[Len(theme.clickRun)])

\* A click where setItem throws: the theme is flipped, the button shows
\* it, nothing is stored.
C14_Witness ==
    /\ ~theme.storageWrites
    /\ theme.clickRun = <<"light">>
    /\ theme.wrote
    /\ theme.attribute = "dark"
    /\ theme.pressed = "dark"
    /\ theme.stored = "none"
    /\ ~theme.uncaught

\* What the rendering of manifest m has put on the page in one step: a
\* link and a section per entry, in order; the empty-state paragraph and no
\* card for an empty list; for any other list one new card per project, in
\* order, and no paragraph.
RenderedAs(m, cardsBefore, navAfter, sectionsAfter, cardsAfter) ==
    /\ Len(navAfter) = Len(m)
    /\ Len(sectionsAfter) = Len(m)
    /\ Len(cardsAfter) = Len(cardsBefore) + ProjectCount(m)
    /\ \A s \in DOMAIN m :
          /\ sectionsAfter[s].key = Trim(m[s].key)
          /\ navAfter[s] = createNavLink(Trim(m[s].key), sectionsAfter[s].id)
          /\ m[s].items = <<>> => (sectionsAfter[s].empty = 1 /\ sectionsAfter[s].cards = <<>>)
          /\ m[s].items # <<>>
                => /\ sectionsAfter[s].empty = 0
                   /\ Len(sectionsAfter[s].cards) = Len(m[s].items)
                   /\ \A i \in DOMAIN m[s].items :
                         /\ sectionsAfter[s].cards[i] > Len(cardsBefore)
                         /\ cardsAfter[sectionsAfter[s].cards[i]].project = m[s].items[i]
                         /\ cardsAfter[sectionsAfter[s].cards[i]].section = Trim(m[s].key)

\* C15: the step that renders a manifest puts on the page what RenderedAs
\* says for one of the manifests: a section whose list is empty has its
\* link, its container, one empty-state paragraph and no card, and every
\* lookup the step starts is awaited by a card of another section.
C15_EmptySectionRendered ==
    [][\A b \in DOMAIN boots :
          (boots[b].pc = "fetching" /\ b \in DOMAIN boots' /\ boots'[b].pc = "rendered" /\ containersExist)
              => /\ \E m \in Manifests : RenderedAs(m, cards, nav', sections', cards')
                 /\ \A pid \in DOMAIN promises' \ DOMAIN promises :
                       \E s \in DOMAIN sections' : \E i \in DOMAIN sections'[s].cards :
                           cards'[sections'[s].cards[i]].awaiting = pid]_vars

\* The manifest with an empty web section after its mobile section is on
\* the page.
C15_Witness ==
    /\ Len(nav) = 2
    /\ Len(sections) = 2
    /\ sections[1].cards # <<>>
    /\ sections[2].key = KeyWeb
    /\ sections[2].empty = 1
    /\ sections[2].cards = <<>>
    /\ \A j \in DOMAIN cards : cards[j].section # KeyWeb

\* Only a-z, 0-9 and "-", no "-" at either end, no "-" after a "-".
UrlSafe(slug) ==
    /\ \A i \in DOMAIN slug : slug[i] \in Range(LowerAlpha) \cup Digits \cup {"-"}
    /\ slug # <<>> => (slug[1] # "-" /\ slug[Len(slug)] # "-")
    /\ \A i \in 1..(Len(slug) - 1) : ~(slug[i] = "-" /\ slug[i + 1] = "-")

\* slugify of every key of SectionKeys, and of its formatted title, is
\* UrlSafe.
EverySlugUrlSafe == \A k \in SectionKeys : UrlSafe(slugify(k)) /\ UrlSafe(slugify(formatSectionTitle(k)))

\* C16: for every section key, as given and as trimmed for rendering,
\* slugify of the key and slugify of its formatted title are UrlSafe; the
\* id of a rendered section and the target of its link are the slug of the
\* key, or section-N, N the position of the link, when that slug is empty.
C16_SlugsAreUrlSafe ==
    /\ EverySlugUrlSafe
    /\ \A s \in DOMAIN sections :
          /\ UrlSafe(slugify(sections[s].key))
          /\ sections[s].heading = formatSectionTitle(sections[s].key)
          /\ UrlSafe(slugify(sections[s].heading))
          /\ sections[s].id = (IF slugify(sections[s].key) # <<>> THEN slugify(sections[s].key)
                               ELSE <<"s","e","c","t","i","o","n","-">> \o DigitString(s))
          /\ nav[s].href = <<"#">> \o sections[s].id

\* A key of punctuation only after a key with a slug: the second section
\* is section-2.
C16_Witness ==
    /\ Len(sections) = 2
    /\ sections[1].id = <<"a">>
    /\ sections[1].heading = <<"A">>
    /\ sections[2].key = <<"!">>
    /\ sections[2].id = <<"s","e","c","t","i","o","n","-","2">>
    /\ nav[2].href = <<"#","s","e","c","t","i","o","n","-","2">>

\* C17: every entry of appleLookupCache and of googleLookupCache is a
\* lookup that is pending or has succeeded, the entry under the US key made
\* by the country fallback included; none is a lookup that has failed.
C17_CacheEntriesPendingOrResolved ==
    /\ \A key \in DOMAIN appleLookupCache : promises[appleLookupCache[key]].st \in {"pending", "ok"}
    /\ \A key \in DOMAIN googleLookupCache : promises[googleLookupCache[key]].st \in {"pending", "ok"}

\* The position of the first event named e among events, 0 for none.
Pos(events, e) == IF e \in Range(events) THEN Min({i \in DOMAIN events : events[i] = e}) ELSE 0

\* C18 as stated: the card shows the placeholder, is appended, and only
\* then is resolveImageSource called, a request sent, and the image set.
C18_AppendedBeforeResolver ==
    \A j \in DOMAIN cards :
        /\ cards[j].events[1] = "placeholder"
        /\ Pos(cards[j].events, "appendChild") = 2
        /\ Pos(cards[j].events, "appendChild") < Pos(cards[j].events, "resolveImageSource")
        /\ "fetch" \in Range(cards[j].events) => Pos(cards[j].events, "appendChild") < Pos(cards[j].events, "fetch")
        /\ "then" \in Range(cards[j].events) => Pos(cards[j].events, "appendChild") < Pos(cards[j].events, "then")
        /\ cards[j].src # placeholderImage => "then" \in Range(cards[j].events)

\* C18 amended: the card shows the placeholder, resolveImageSource is
\* called and its request, if any, sent, then the card is appended, all in
\* the step that creates it; the image is set after that, by the handler.
C18_ResolverBeforeAppendImageAfter ==
    \A j \in DOMAIN cards :
        /\ cards[j].events[1] = "placeholder"
        /\ cards[j].events[2] = "resolveImageSource"
        /\ "fetch" \in Range(cards[j].events) => Pos(cards[j].events, "fetch") = 3
        /\ Pos(cards[j].events, "appendChild") = (IF "fetch" \in Range(cards[j].events) THEN 4 ELSE 3)
        /\ "then" \in Range(cards[j].events) => Pos(cards[j].events, "then") = Len(cards[j].events)
        /\ "then" \in Range(cards[j].events) => Pos(cards[j].events, "appendChild") < Pos(cards[j].events, "then")
        /\ cards[j].src # placeholderImage => "then" \in Range(cards[j].events)

\* A card whose lookup was requested before it was appended now shows the
\* artwork; another one is in the container and still shows the placeholder.
C18_Witness ==
    /\ \E j \in DOMAIN cards :
          /\ cards[j].events = <<"placeholder", "resolveImageSource", "fetch", "appendChild", "then">>
          /\ cards[j].src # placeholderImage
    /\ \E j \in DOMAIN cards :
          /\ cards[j].events = <<"placeholder", "resolveImageSource", "fetch", "appendChild">>
          /\ cards[j].src = placeholderImage

\* The cache key of the lookups that may hang: app 12 in the FR store.
HungKey == AppleCacheKey(<<"1","2">>, <<"F","R">>)

\* C19: requests for HungKey may never be answered; every card made for
\* another key, or for none, gets in the end the image its resolution
\* gives, when the other requests are answered; and the cards of the latest
\* rendering, the stalled ones too, are all in their containers.
C19_HungLookupStallsOnlyItsCards ==
    /\ [](\A j \in DOMAIN cards :
             cards[j].boot = cards[Len(cards)].boot
                 => \E s \in DOMAIN sections : \E i \in DOMAIN sections[s].cards : sections[s].cards[i] = j)
    /\ \A j \in 1..MaxCards :
          (j \in DOMAIN cards /\ cards[j].key # HungKey)
              ~> (j \in DOMAIN cards /\ cards[j].resolved.st = "ok" /\ cards[j].src = cards[j].resolved.val)

\* The request for HungKey is unanswered and its card shows the
\* placeholder; a card of the same rendering that awaited another lookup
\* shows its artwork.
C19_Witness ==
    /\ \E c \in calls : c.store = "apple" /\ c.country = <<"F","R">>
    /\ \E j \in DOMAIN cards : \E k \in DOMAIN cards :
          /\ cards[j].boot = cards[k].boot
          /\ cards[j].key = HungKey
          /\ cards[j].resolved.st = "pending"
          /\ cards[j].src = placeholderImage
          /\ cards[k].via = "apple"
          /\ cards[k].key # HungKey
          /\ cards[k].awaiting # 0
          /\ cards[k].fetched.st = "ok"
          /\ cards[k].src = cards[k].fetched.val
          /\ k > j

\* The store whose lookup the card awaits, "none" when it awaits none.
AwaitedStore(card) ==
    IF card.awaiting = 0 THEN "none" ELSE promises[card.awaiting].store

\* C20: of the cards of projects without cover image, one whose platform
\* contains "ios" took the Apple path and awaits no Google lookup, also
\* when the platform contains "android"; one whose platform contains
\* "android" but not "ios" took the Google path and awaits no Apple lookup;
\* any other one, in the mobile section or outside it, called no store,
\* sent no request and shows the placeholder.
C20_StoreDispatch ==
    \A j \in DOMAIN cards :
        LET card == cards[j]
            ios == Includes(ToLowerCase(card.project.platform), <<"i","o","s">>)
            android == Includes(ToLowerCase(card.project.platform), <<"a","n","d","r","o","i","d">>)
        IN  Trim(card.project.cover_image) = <<>>
                => /\ ios => card.via = "apple" /\ AwaitedStore(card) \in {"apple", "none"}
                   /\ (android /\ ~ios) => card.via = "google" /\ AwaitedStore(card) \in {"google", "none"}
                   /\ (~ios /\ ~android)
                         => /\ card.via = "none"
                            /\ card.awaiting = 0
                            /\ "fetch" \notin Range(card.events)
                            /\ card.resolved = Fulfilled(placeholderImage)
                            /\ card.src = placeholderImage

\* One rendering has made the four kinds of card: both stores named
\* outside the mobile section (the Apple path, which finds no App Store id
\* in the Play address and leaves the placeholder, with no request to a
\* proxy), Android alone (the Google path), and no store named inside the
\* mobile section and outside it.
C20_Witness ==
    /\ \E j \in DOMAIN cards :
          /\ cards[j].project = BothStores
          /\ ToLowerCase(cards[j].section) # <<"m","o","b","i","l","e">>
          /\ cards[j].via = "apple"
          /\ cards[j].awaiting = 0
          /\ "then" \in Range(cards[j].events)
          /\ cards[j].src = placeholderImage
          /\ \A c \in calls : c.store # "google"
    /\ \E j \in DOMAIN cards :
          /\ cards[j].project = AndroidNoId
          /\ cards[j].via = "google"
    /\ \E j \in DOMAIN cards :
          /\ cards[j].project = NoPlatform
          /\ ToLowerCase(cards[j].section) = <<"m","o","b","i","l","e">>
          /\ cards[j].via = "none"
    /\ \E j \in DOMAIN cards :
          /\ cards[j].project = WebPlain
          /\ cards[j].via = "none"

\* C21: once initializeTheme has run, and after every click and every
\* change of the system theme, a toggle button that exists shows the
\* applied theme: aria-pressed is "true" exactly when data-theme is "dark",
\* and the label and the icon, where the button has them, show the theme
\* aria-pressed shows.
C21_ToggleShowsAppliedTheme ==
    (theme.pc = "ready" /\ theme.button)
        => /\ theme.pressed \in {"dark", "light"}
           /\ (theme.pressed = "dark") <=> (theme.attribute = "dark")
           /\ theme.labelElement => theme.label = theme.pressed
           /\ theme.iconElement => theme.icon = theme.pressed

\* After a click, handleChange has applied a dark system theme (nothing is
\* stored, the storage rejects writes) and the button, its label and its
\* icon show dark.
C21_Witness ==
    /\ theme.pc = "ready"
    /\ theme.clicked
    /\ theme.observing
    /\ theme.stored = "none"
    /\ theme.clickRun = <<>>
    /\ theme.systemDark
    /\ theme.attribute = "dark"
    /\ theme.pressed = "dark"
    /\ theme.labelElement /\ theme.label = "dark"
    /\ theme.iconElement /\ theme.icon = "dark"

====
